---- MODULE Spec2Model ----
(***************************************************************************)
(* A model of python/cudf/cudf/io/parquet.py: the partitioned dataset      *)
(* writer (write_to_dataset and _get_partition_groups), the engine         *)
(* dispatch of to_parquet and read_parquet, and the metadata merge.        *)
(*                                                                         *)
(* A run is one call of a public function.  write_to_dataset is modelled   *)
(* step by step (entry, one step per partition group, return) so that the  *)
(* order of file writes and of the metadata merge is observable.           *)
(***************************************************************************)
EXTENDS Integers, Sequences, FiniteSets, TLC

VARIABLES
    pc,          \* "idle" | "loop" (in the for loop) | "ret" (at line 141) | "done"
    call,        \* the public call being run, with its arguments
    wd,          \* the locals of write_to_dataset (df, partition_cols, ...)
    groups,      \* the list returned by _get_partition_groups
    i,           \* the for loop's position in groups (1-based)
    metadata,    \* write_to_dataset's local list `metadata`
    dirs,        \* directories created through fs.mkdirs
    written,     \* files the native writer wrote, in write order
    attempts,    \* number of calls handed to the native writer
    skipped,     \* number of partition groups passed over by `continue`
    ngroupcalls, \* number of calls of _get_partition_groups
    mergeCalls,  \* the argument lists given to merge_parquet_filemetadata
    cpuCalls,    \* calls handed to the CPU (pyarrow) collaborator
    raised,      \* the exception the last callee raised (None if none)
    result,      \* what the public call gave back to its caller
    nguid        \* number of names drawn from guid()

vars == <<pc, call, wd, groups, i, metadata, dirs, written, attempts, skipped,
          ngroupcalls, mergeCalls, cpuCalls, raised, result, nguid>>

-----------------------------------------------------------------------------
(* Bounds of the model *)

MaxRows == 2
MaxVal == 2
MaxRowGroups == 2
MaxGroupRows == 2

-----------------------------------------------------------------------------
(* Python values *)

None == [kind |-> "None"]
Some(v) == [kind |-> "Some", v |-> v]

Pending == [kind |-> "pending"]
Return(v) == [kind |-> "return", value |-> v]
Raise(e) == [kind |-> "raise", exc |-> e]

NoDataColumns ==
    [kind |-> "ValueError", msg |-> "No data left to save outside partition columns"]
UnsupportedCategoricalType ==
    [kind |-> "ValueError",
     msg |-> "'category' column dtypes are currently not supported by the gpu accelerated parquet writer"]
UnsupportedContentEncoding ==
    [kind |-> "ValueError", msg |-> "URL content-encoding decompression is not supported"]
IOError(path) == [kind |-> "IOError", msg |-> path]
SchemaMismatch == [kind |-> "SchemaMismatch", msg |-> "row group range"]

\* Python truthiness of the index / preserve_index argument
Truthy(flag) == flag = "True"

Range(s) == {s[k] : k \in 1..Len(s)}

-----------------------------------------------------------------------------
(* Tables *)

GrpValues == {"x", "y"}
StrRank == [s \in GrpValues |-> IF s = "x" THEN 0 ELSE 1]

\* the ordering sort_values and searchsorted use on one column's values
ValLess(c, v1, v2) == IF c = "grp" THEN StrRank[v1] < StrRank[v2] ELSE v1 < v2

\* lexicographic order of two rows on the columns `by`, first column first
RECURSIVE KeyLess(_, _, _)
KeyLess(r1, r2, by) ==
    IF by = <<>> THEN FALSE
    ELSE \/ ValLess(Head(by), r1[Head(by)], r2[Head(by)])
         \/ /\ r1[Head(by)] = r2[Head(by)]
            /\ KeyLess(r1, r2, Tail(by))

KeyEq(r1, r2, by) == \A c \in Range(by) : r1[c] = r2[c]

DTypeOf(c, cat) ==
    IF c = cat THEN "category" ELSE IF c = "grp" THEN "object" ELSE "int64"

\* row k of a table: RangeIndex label k-1, key columns, and id = k
MakeRow(k, key, cols) ==
    [c \in Range(cols) \cup {"index"} |->
        CASE c = "index" -> k - 1
          [] c = "A" -> key[1]
          [] c = "grp" -> key[2]
          [] OTHER -> k]

MakeTable(keys, cols, cat) ==
    [columns |-> cols,
     dtypes |-> [c \in Range(cols) |-> DTypeOf(c, cat)],
     rows |-> [k \in 1..Len(keys) |-> MakeRow(k, keys[k], cols)]]

Keys == (0..(MaxVal - 1)) \X GrpValues
KeySeqs == UNION {[1..n -> Keys] : n \in 0..MaxRows}

\* id:[1,2,3,4], grp:["x","y","x","y"]
ExampleKeys == <<<<0, "x">>, <<0, "y">>, <<0, "x">>, <<0, "y">>>>
ExampleTable == MakeTable(ExampleKeys, <<"id", "grp">>, "none")

Schemas == {<<"A", "grp", "id">>, <<"A", "grp">>}
PartitionColLists == {<<>>, <<"A">>, <<"grp">>, <<"A", "grp">>, <<"grp", "A">>}

\* variant: the partition columns are not dropped
data_cols_nodrop(df, partition_cols) == df.columns

\* df.columns.drop(partition_cols)
data_cols(df, partition_cols) ==
    SelectSeq(df.columns, LAMBDA c : c \notin Range(partition_cols))

\* DataFrame.drop(columns=partition_cols)
DropColumns(df, partition_cols) ==
    LET keep == data_cols(df, partition_cols) IN
    [columns |-> keep,
     dtypes |-> [c \in Range(keep) |-> df.dtypes[c]],
     rows |-> [k \in 1..Len(df.rows) |->
                 [c \in Range(keep) \cup {"index"} |-> df.rows[k][c]]]]

-----------------------------------------------------------------------------
(* _get_partition_groups *)

\* the rows a sort by `by` may put first: those no other row is below
MinRows(S, rows, by) == {k \in S : \A j \in S : ~KeyLess(rows[j], rows[k], by)}

\* df.sort_values(by): every order of the rows that is sorted on `by`
\* (the sort is not stable, rows with equal keys come in any order)
RECURSIVE SortedOrders(_, _, _)
SortedOrders(S, rows, by) ==
    IF S = {} THEN {<<>>}
    ELSE UNION {{<<rows[k]>> \o rest : rest \in SortedOrders(S \ {k}, rows, by)} :
                  k \in MinRows(S, rows, by)}

sort_values(df, by) ==
    {[df EXCEPT !.rows = s] : s \in SortedOrders(1..Len(df.rows), df.rows, by)}

\* df.reset_index(drop=True)
reset_index(df) ==
    [df EXCEPT !.rows = [k \in 1..Len(df.rows) |-> [df.rows[k] EXCEPT !["index"] = k - 1]]]

\* df[partition_cols].drop_duplicates(): first occurrences, in row order
drop_duplicates(rows, by) ==
    SelectSeq([k \in 1..Len(rows) |-> [pos |-> k, row |-> rows[k]]],
              LAMBDA e : \A j \in 1..(e.pos - 1) : ~KeyEq(rows[j], e.row, by))

\* df[partition_cols].searchsorted(d, side): 0-based insertion position
searchsorted(rows, by, d, side) ==
    IF side = "left"
    THEN Cardinality({k \in 1..Len(rows) : KeyLess(rows[k], d, by)})
    ELSE Cardinality({k \in 1..Len(rows) : ~KeyLess(d, rows[k], by)})

\* lines 22-28 on a table already sorted (and re-indexed)
SplitGroups(df, partition_cols, side) ==
    LET divisions == drop_duplicates(df.rows, partition_cols)
        splits == [k \in 1..Len(divisions) |->
                      searchsorted(df.rows, partition_cols, divisions[k].row, side)]
                  \o <<Len(df.rows)>>
    IN [k \in 1..(Len(splits) - 1) |->
           [df EXCEPT !.rows = SubSeq(df.rows, splits[k] + 1, splits[k + 1])]]

\* variant: searchsorted with side="right"
_get_partition_groups_right(df, partition_cols, preserve_index) ==
    {SplitGroups(IF Truthy(preserve_index) THEN s ELSE reset_index(s),
                 partition_cols, "right") :
        s \in sort_values(df, partition_cols)}

\* the lists of groups the function may return
_get_partition_groups(df, partition_cols, preserve_index) ==
    {SplitGroups(IF Truthy(preserve_index) THEN s ELSE reset_index(s),
                 partition_cols, "left") :
        s \in sort_values(df, partition_cols)}

-----------------------------------------------------------------------------
(* The native codec (cudf._lib.parquet) and the CPU collaborator *)

\* what libparquet.write_parquet was called with
WriteCall(df, path, index, compression, statistics, metadata_file_path) ==
    [path |-> path, df |-> df, index |-> index, compression |-> compression,
     statistics |-> statistics, metadata_file_path |-> metadata_file_path]

\* libparquet.write_parquet: the file's metadata when a metadata_file_path
\* was given, None otherwise
write_parquet(w) ==
    IF w.metadata_file_path = None THEN None
    ELSE [kind |-> "FileMetadata",
          schema |-> w.df.columns,
          row_groups |-> <<[file_path |-> w.metadata_file_path.v,
                            num_rows |-> Len(w.df.rows)]>>]

RECURSIVE ConcatRowGroups(_)
ConcatRowGroups(list) ==
    IF list = <<>> THEN <<>> ELSE Head(list).row_groups \o ConcatRowGroups(Tail(list))

\* libparquet.merge_filemetadata
merge_filemetadata(filemetadata_list) ==
    [kind |-> "FileMetadata",
     schema |-> filemetadata_list[1].schema,
     row_groups |-> ConcatRowGroups(filemetadata_list)]

merge_parquet_filemetadata(filemetadata_list) == merge_filemetadata(filemetadata_list)

-----------------------------------------------------------------------------
(* to_parquet *)

EmptyKwargs == [k \in {} |-> "none"]
KwGet(kwargs, key, default) == IF key \in DOMAIN kwargs THEN kwargs[key] ELSE default

Outcome(exc, writes, nattempts, cpu, value) ==
    [exc |-> exc, writes |-> writes, attempts |-> nattempts, cpu |-> cpu, value |-> value]

\* variant: only the first column's dtype is looked at
HasCategory_first(df) == df.columns # <<>> /\ df.dtypes[df.columns[1]] = "category"

\* lines 230-231
HasCategory(df) == \E c \in Range(df.columns) : df.dtypes[c] = "category"

\* to_parquet without partition_cols (lines 229-254); `ok` says whether the
\* native writer succeeds.  The fields are: the exception raised, the native
\* writes done, the native writes attempted, the CPU calls and the value returned
to_parquet_file(df, path, engine, compression, index, partition_cols, statistics, metadata_file_path, ok) ==
    IF engine = "cudf"
    THEN IF HasCategory(df)
         THEN Outcome(Some(UnsupportedCategoricalType), <<>>, 0, <<>>, None)
         ELSE LET w == WriteCall(df, path, index, compression, statistics, metadata_file_path)
              IN IF ok THEN Outcome(None, <<w>>, 1, <<>>, write_parquet(w))
                 ELSE Outcome(Some(IOError(path)), <<>>, 1, <<>>, None)
    ELSE Outcome(None, <<>>, 0,
                 <<[fn |-> "pq.write_to_dataset", path |-> path, df |-> df,
                    partition_cols |-> partition_cols,
                    preserve_index |-> IF index = "None" THEN "True" ELSE index]>>,
                 None)

\* DataFrame.to_parquet(path, index=..., metadata_file_path=..., **kwargs) as
\* write_to_dataset calls it: the arguments not in kwargs take to_parquet's defaults
df_to_parquet(df, path, index, metadata_file_path, kwargs, ok) ==
    to_parquet_file(df, path, "cudf", KwGet(kwargs, "compression", "snappy"), index,
                    <<>>, KwGet(kwargs, "statistics", "ROWGROUP"), metadata_file_path, ok)

-----------------------------------------------------------------------------
(* write_to_dataset *)

Sep == "/"
RootPath == "root"

RECURSIVE Join(_, _)
\* fs.sep.join(parts)
Join(sep, parts) ==
    IF parts = <<>> THEN ""
    ELSE IF Len(parts) = 1 THEN parts[1]
    ELSE parts[1] \o sep \o Join(sep, Tail(parts))

\* "{value}".format(value=val)
FormatValue(c, val) == IF c = "grp" THEN val ELSE ToString(val)

\* pyarrow.compat.guid(): a fresh name at every call
guid(n) == "guid" \o ToString(n)

\* variant: the segments follow the table's column order
subdir_of_column_order(sub_df, partition_cols) ==
    LET cols == SelectSeq(sub_df.columns, LAMBDA c : c \in Range(partition_cols))
    IN Join(Sep, [k \in 1..Len(cols) |->
                     cols[k] \o "=" \o FormatValue(cols[k], sub_df.rows[1][cols[k]])])

\* lines 99-107
subdir_of(sub_df, partition_cols) ==
    LET keys == [k \in 1..Len(partition_cols) |-> sub_df.rows[1][partition_cols[k]]]
    IN Join(Sep, [k \in 1..Len(partition_cols) |->
                     partition_cols[k] \o "=" \o FormatValue(partition_cols[k], keys[k])])

\* variant: the file name alone
metadata_file_path_outfile(subdir, outfile) == outfile

\* line 119
metadata_file_path_of(subdir, outfile) == Join(Sep, <<subdir, outfile>>)

Frame(df, root_path, partition_cols, preserve_index, return_metadata, kwargs) ==
    [df |-> df, root_path |-> root_path, partition_cols |-> partition_cols,
     preserve_index |-> preserve_index, return_metadata |-> return_metadata,
     kwargs |-> kwargs]

\* lines 81-99 up to the loop, and the else branch (lines 127-139)
EnterWriteToDataset(f) ==
    /\ wd' = f
    /\ i' = 1
    /\ skipped' = skipped
    /\ mergeCalls' = mergeCalls
    /\ cpuCalls' = cpuCalls
    /\ dirs' = dirs \cup {f.root_path}
    /\ IF f.partition_cols # <<>>
       THEN IF Len(data_cols(f.df, f.partition_cols)) = 0
            THEN /\ raised' = Some(NoDataColumns)
                 /\ result' = Raise(NoDataColumns)
                 /\ pc' = "done"
                 /\ UNCHANGED <<groups, metadata, written, attempts, ngroupcalls, nguid>>
            ELSE /\ \E gs \in _get_partition_groups(f.df, f.partition_cols, f.preserve_index) :
                      /\ groups' = gs
                      /\ pc' = IF gs = <<>> THEN "ret" ELSE "loop"
                 /\ ngroupcalls' = ngroupcalls + 1
                 /\ UNCHANGED <<metadata, written, attempts, raised, result, nguid>>
       ELSE \E ok \in BOOLEAN :
              LET outfile == guid(nguid) \o ".parquet"
                  full_path == Join(Sep, <<f.root_path, outfile>>)
                  o == df_to_parquet(f.df, full_path, f.preserve_index,
                                     IF f.return_metadata THEN Some(outfile) ELSE None,
                                     f.kwargs, ok)
              IN /\ nguid' = nguid + 1
                 /\ written' = written \o o.writes
                 /\ attempts' = attempts + o.attempts
                 /\ raised' = o.exc
                 /\ IF o.exc # None
                    THEN /\ result' = Raise(o.exc.v)
                         /\ pc' = "done"
                         /\ metadata' = metadata
                    ELSE /\ result' = result
                         /\ pc' = "ret"
                         /\ metadata' = IF f.return_metadata
                                        THEN Append(metadata, o.value) ELSE metadata
                 /\ UNCHANGED <<groups, ngroupcalls>>

\* the for loop has a group left to process
InLoop == pc = "loop"

\* variant: the exception of a group's write is caught and dropped
GroupWriteFailed_swallowed(o) == FALSE

\* a group's write raised: nothing catches it, the loop is left
GroupWriteFailed(o) == o.exc # None

\* one iteration of the for loop (lines 92-124)
LoopStep ==
    /\ InLoop
    /\ LET sub_df == groups[i]
           next_pc == IF i = Len(groups) THEN "ret" ELSE "loop"
       IN IF Len(sub_df.rows) = 0
          THEN /\ skipped' = skipped + 1
               /\ i' = i + 1
               /\ pc' = next_pc
               /\ UNCHANGED <<metadata, dirs, written, attempts, raised, result, nguid>>
          ELSE \E ok \in BOOLEAN :
                 LET subdir == subdir_of(sub_df, wd.partition_cols)
                     prefix == Join(Sep, <<wd.root_path, subdir>>)
                     outfile == guid(nguid) \o ".parquet"
                     full_path == Join(Sep, <<prefix, outfile>>)
                     write_df == DropColumns(sub_df, wd.partition_cols)
                     o == df_to_parquet(write_df, full_path, wd.preserve_index,
                                        IF wd.return_metadata
                                        THEN Some(metadata_file_path_of(subdir, outfile))
                                        ELSE None,
                                        wd.kwargs, ok)
                 IN /\ dirs' = dirs \cup {prefix}
                    /\ nguid' = nguid + 1
                    /\ written' = written \o o.writes
                    /\ attempts' = attempts + o.attempts
                    /\ skipped' = skipped
                    /\ raised' = o.exc
                    /\ IF GroupWriteFailed(o)
                       THEN /\ result' = Raise(o.exc.v)
                            /\ pc' = "done"
                            /\ UNCHANGED <<i, metadata>>
                       ELSE /\ result' = result
                            /\ i' = i + 1
                            /\ pc' = next_pc
                            /\ metadata' = IF wd.return_metadata
                                           THEN Append(metadata, o.value) ELSE metadata
    /\ UNCHANGED <<call, wd, groups, ngroupcalls, mergeCalls, cpuCalls>>

\* variant: len(metadata) > 0
needs_merge_any(md) == Len(md) > 0

\* line 144
needs_merge(md) == Len(md) > 1

\* variant: lines 141-146 indented into the for loop
AtReturn_inLoop == pc \in {"loop", "ret"}

\* control has left the if/else of lines 85-139
AtReturn == pc = "ret"

\* lines 141-146, and line 227 when to_parquet made the call
WriteToDatasetReturn ==
    /\ AtReturn
    /\ pc' = "done"
    /\ LET value == IF metadata # <<>>
                    THEN IF needs_merge(metadata)
                         THEN merge_parquet_filemetadata(metadata)
                         ELSE metadata[1]
                    ELSE None
       IN /\ mergeCalls' = IF metadata # <<>> /\ needs_merge(metadata)
                           THEN Append(mergeCalls, metadata) ELSE mergeCalls
          /\ result' = IF call.fn = "to_parquet" THEN Return(None) ELSE Return(value)
    /\ UNCHANGED <<call, wd, groups, i, metadata, dirs, written, attempts, skipped,
                   ngroupcalls, cpuCalls, raised, nguid>>

-----------------------------------------------------------------------------
(* The public calls *)

CatChoices == {"none", "A", "id"}
TableShapes ==
    {sh \in Schemas \X CatChoices : sh[2] = "none" \/ "id" \in Range(sh[1])}
Tables ==
    {MakeTable(ks, sh[1], sh[2]) : ks \in KeySeqs, sh \in TableShapes} \cup {ExampleTable}

\* partition columns the table has; a table that keeps data columns has the
\* id column, which tells its rows apart
UsablePartitionCols(df) ==
    {p \in PartitionColLists :
        /\ Range(p) \subseteq Range(df.columns)
        /\ "id" \in Range(df.columns) \/ p = <<>> \/ Range(p) = Range(df.columns)}

\* **kwargs: nothing, or compression="gzip", statistics="NONE"
WriteToDatasetKwargs ==
    {EmptyKwargs,
     [k \in {"compression", "statistics"} |-> IF k = "compression" THEN "gzip" ELSE "NONE"]}

\* write_to_dataset(df, root_path, partition_cols, preserve_index, return_metadata, **kwargs)
CallWriteToDataset ==
    /\ pc = "idle"
    /\ \E df \in Tables :
       \E partition_cols \in UsablePartitionCols(df) :
       \E preserve_index \in {"False", "True"} :
       \E return_metadata \in BOOLEAN :
       \E kwargs \in WriteToDatasetKwargs :
          LET f == Frame(df, RootPath, partition_cols, preserve_index, return_metadata, kwargs)
          IN /\ call' = [fn |-> "write_to_dataset", args |-> f]
             /\ EnterWriteToDataset(f)

\* the values drawn for compression and statistics: only the cudf engine is
\* given them (lines 241-242), for another engine the default stands for all
WriterSettings(engine, values, default) == IF engine = "cudf" THEN values ELSE {default}

\* to_parquet(df, path, engine, compression, index, partition_cols, statistics,
\*            metadata_file_path), with index and metadata_file_path left at None
CallToParquet ==
    /\ pc = "idle"
    /\ \E df \in Tables :
       \E partition_cols \in UsablePartitionCols(df) :
       \E engine \in {"cudf", "pyarrow"} :
       \E compression \in WriterSettings(engine, {"snappy", "gzip"}, "snappy") :
       \E statistics \in WriterSettings(engine, {"ROWGROUP", "NONE"}, "ROWGROUP") :
       \E index \in {"None"} :
          /\ call' = [fn |-> "to_parquet", df |-> df, path |-> RootPath, engine |-> engine,
                      compression |-> compression, index |-> index,
                      partition_cols |-> partition_cols, statistics |-> statistics,
                      metadata_file_path |-> None]
          /\ IF engine = "cudf" /\ partition_cols # <<>>
             THEN EnterWriteToDataset(
                      Frame(df, RootPath, partition_cols, index, FALSE, EmptyKwargs))
             ELSE \E ok \in BOOLEAN :
                    LET o == to_parquet_file(df, RootPath, engine, compression, index,
                                             partition_cols, statistics, None, ok)
                    IN /\ written' = written \o o.writes
                       /\ attempts' = attempts + o.attempts
                       /\ cpuCalls' = cpuCalls \o o.cpu
                       /\ raised' = o.exc
                       /\ result' = IF o.exc # None THEN Raise(o.exc.v) ELSE Return(o.value)
                       /\ pc' = "done"
                       /\ UNCHANGED <<wd, groups, i, metadata, dirs, skipped, ngroupcalls,
                                      mergeCalls, nguid>>

Init ==
    /\ pc = "idle"
    /\ call = [fn |-> "none"]
    /\ wd = None
    /\ groups = <<>>
    /\ i = 1
    /\ metadata = <<>>
    /\ dirs = {}
    /\ written = <<>>
    /\ attempts = 0
    /\ skipped = 0
    /\ ngroupcalls = 0
    /\ mergeCalls = <<>>
    /\ cpuCalls = <<>>
    /\ raised = None
    /\ result = Pending
    /\ nguid = 0

Next ==
    \/ CallWriteToDataset
    \/ CallToParquet
    \/ LoopStep
    \/ WriteToDatasetReturn

Spec == Init /\ [][Next]_vars

-----------------------------------------------------------------------------
(* read_parquet *)

\* A stored file is its sequence of row groups; a row is named by its
\* position in the file (1, 2, ...), so a file is fixed by its group sizes.
RECURSIVE Flatten(_)
Flatten(gs) == IF gs = <<>> THEN <<>> ELSE Head(gs) \o Flatten(Tail(gs))

RECURSIVE SumSeq(_)
SumSeq(ns) == IF ns = <<>> THEN 0 ELSE Head(ns) + SumSeq(Tail(ns))

FileOfSizes(sizes) ==
    [g \in 1..Len(sizes) |->
        [k \in 1..sizes[g] |-> SumSeq(SubSeq(sizes, 1, g - 1)) + k]]

ParquetFiles ==
    {FileOfSizes(sizes) : sizes \in UNION {[1..n -> 1..MaxGroupRows] : n \in 0..MaxRowGroups}}

OptInts(lo, hi) == {None} \cup {Some(n) : n \in lo..hi}

\* libparquet.read_parquet: the selected row groups, then skip_rows/num_rows
libparquet_read_parquet(file, row_group, row_group_count, skip_rows, num_rows) ==
    LET n == Len(file)
        start == IF row_group = None THEN 0 ELSE row_group.v
        count == IF row_group = None \/ row_group_count = None
                 THEN (IF start <= n THEN n - start ELSE 0)
                 ELSE row_group_count.v
    IN IF start + count > n
       THEN Raise(SchemaMismatch)
       ELSE LET rows == Flatten(SubSeq(file, start + 1, start + count))
                skip == IF skip_rows = None THEN 0 ELSE skip_rows.v
                last == IF num_rows = None \/ skip + num_rows.v > Len(rows)
                        THEN Len(rows) ELSE skip + num_rows.v
            IN Return(SubSeq(rows, skip + 1, last))

\* variant: skip_rows is not handed to the native reader
read_parquet_noskip(file, content_encoding, engine, row_group, row_group_count, skip_rows, num_rows) ==
    IF content_encoding # None
    THEN Raise(UnsupportedContentEncoding)
    ELSE IF engine = "cudf"
    THEN libparquet_read_parquet(file, row_group, row_group_count, None, num_rows)
    ELSE Return(Flatten(file))

\* lines 178-200; content_encoding is the compression get_filepath_or_buffer
\* reports, and the pyarrow reader is given neither row groups nor row range
read_parquet(file, content_encoding, engine, row_group, row_group_count, skip_rows, num_rows) ==
    IF content_encoding # None
    THEN Raise(UnsupportedContentEncoding)
    ELSE IF engine = "cudf"
    THEN libparquet_read_parquet(file, row_group, row_group_count, skip_rows, num_rows)
    ELSE Return(Flatten(file))

CallReadParquet ==
    /\ pc = "idle"
    /\ \E file \in ParquetFiles :
       \E content_encoding \in {None, Some("gzip")} :
       \E engine \in {"cudf", "pyarrow"} :
       \E row_group \in OptInts(0, MaxRowGroups) :
       \E row_group_count \in OptInts(0, MaxRowGroups) :
       \E skip_rows \in OptInts(0, MaxGroupRows + 1) :
       \E num_rows \in OptInts(0, MaxGroupRows + 1) :
          /\ call' = [fn |-> "read_parquet", file |-> file,
                      content_encoding |-> content_encoding, engine |-> engine,
                      row_group |-> row_group, row_group_count |-> row_group_count,
                      skip_rows |-> skip_rows, num_rows |-> num_rows]
          /\ result' = read_parquet(file, content_encoding, engine, row_group,
                                    row_group_count, skip_rows, num_rows)
          /\ raised' = IF result'.kind = "raise" THEN Some(result'.exc) ELSE None
          /\ pc' = "done"
    /\ UNCHANGED <<wd, groups, i, metadata, dirs, written, attempts, skipped,
                   ngroupcalls, mergeCalls, cpuCalls, nguid>>

NextRead == CallReadParquet

SpecRead == Init /\ [][NextRead]_vars

-----------------------------------------------------------------------------
(* Properties of the partitioned writer *)

InDataset == wd # None
Partitioned == InDataset /\ wd.partition_cols # <<>>
GroupsComputed == ngroupcalls > 0
Returned == pc = "done" /\ result.kind = "return"

\* all rows of the groups, in group order
GroupRows == Flatten([g \in 1..Len(groups) |-> groups[g].rows])

\* the row of the table being written that has the given id
SourceRow(id) == CHOOSE r \in Range(wd.df.rows) : r["id"] = id

\* the directory the spec names for a row's key: root/col1=val1/col2=val2
ExpectedDir(r) ==
    IF Len(wd.partition_cols) = 1
    THEN "root/" \o wd.partition_cols[1] \o "="
             \o FormatValue(wd.partition_cols[1], r[wd.partition_cols[1]])
    ELSE "root/" \o wd.partition_cols[1] \o "="
             \o FormatValue(wd.partition_cols[1], r[wd.partition_cols[1]])
             \o "/" \o wd.partition_cols[2] \o "="
             \o FormatValue(wd.partition_cols[2], r[wd.partition_cols[2]])

FileNames == {guid(n) \o ".parquet" : n \in 0..(nguid - 1)}

\* the written file w lies directly in directory d
FileIn(w, d) == \E name \in FileNames : w.path = d \o "/" \o name

FileIds(w) == {w.df.rows[k]["id"] : k \in 1..Len(w.df.rows)}

\* C1: a partitioned write_to_dataset never writes two files for one key
\* tuple, puts every file in root/col1=val1/col2=val2 built from the key of
\* its rows in partition_cols order, writes no partition column into a file,
\* and, once it has returned, has written one file for every key tuple
\* present in the table.
C1_OneFilePerKey ==
    Partitioned =>
        /\ \A k \in 1..Len(written) :
              LET w == written[k] IN
              /\ Len(w.df.rows) > 0
              /\ \A id \in FileIds(w) : FileIn(w, ExpectedDir(SourceRow(id)))
              /\ Range(w.df.columns) \cap Range(wd.partition_cols) = {}
              /\ \A n \in 1..Len(w.df.rows) :
                    (DOMAIN w.df.rows[n]) \cap Range(wd.partition_cols) = {}
        /\ \A k, m \in 1..Len(written) :
              k # m => /\ written[k].path # written[m].path
                       /\ ~KeyEq(SourceRow(written[k].df.rows[1]["id"]),
                                 SourceRow(written[m].df.rows[1]["id"]),
                                 wd.partition_cols)
        /\ Returned =>
              /\ \A r \in Range(wd.df.rows) :
                    Cardinality({k \in 1..Len(written) :
                                    FileIn(written[k], ExpectedDir(r))}) = 1
              /\ \A r \in Range(wd.df.rows) :
                    \E k \in 1..Len(written) : r["id"] \in FileIds(written[k])

C1_Witness ==
    /\ Partitioned
    /\ Returned
    /\ wd.partition_cols = <<"grp", "A">>
    /\ Len(wd.df.rows) = 2
    /\ Len(written) = 2
    /\ written[1].path = "root/grp=x/A=1/guid0.parquet"
    /\ written[2].path = "root/grp=y/A=0/guid1.parquet"
    /\ written[1].df.columns = <<"id">>

\* C2: the groups are contiguous slices of the table sorted by the partition
\* columns: every row of the table is in exactly one group, the rows of a
\* group share one key tuple, the keys of the groups increase strictly in
\* group order, and every written file holds only rows of its own key.
C2_GroupsPartitionSortedTable ==
    GroupsComputed =>
        LET all == GroupRows IN
        /\ Len(all) = Len(wd.df.rows)
        /\ \A r \in Range(wd.df.rows) :
              Cardinality({n \in 1..Len(all) :
                  \A c \in Range(wd.df.columns) : all[n][c] = r[c]}) = 1
        /\ \A g \in 1..Len(groups) :
              /\ Len(groups[g].rows) > 0
              /\ \A k \in 1..Len(groups[g].rows) :
                    KeyEq(groups[g].rows[k], groups[g].rows[1], wd.partition_cols)
        /\ \A g, h \in 1..Len(groups) :
              g < h => KeyLess(groups[g].rows[1], groups[h].rows[1], wd.partition_cols)
        /\ ~Truthy(wd.preserve_index) =>
              \A n \in 1..Len(all) : all[n]["index"] = n - 1
        /\ \A k \in 1..Len(written) :
              \A id \in FileIds(written[k]) :
                 /\ FileIn(written[k], ExpectedDir(SourceRow(id)))
                 /\ \A id2 \in FileIds(written[k]) :
                       KeyEq(SourceRow(id), SourceRow(id2), wd.partition_cols)

\* the spec's example: id=[1,2,3,4], grp=[x,y,x,y] partitioned by grp
C2_Witness ==
    /\ Returned
    /\ InDataset
    /\ wd.df = ExampleTable
    /\ wd.partition_cols = <<"grp">>
    /\ Len(groups) = 2
    /\ Len(written) = 2
    /\ FileIds(written[1]) = {1, 3}
    /\ FileIn(written[1], "root/grp=x")
    /\ FileIds(written[2]) = {2, 4}
    /\ FileIn(written[2], "root/grp=y")

-----------------------------------------------------------------------------
(* Properties of to_parquet and of write_to_dataset's errors and result *)

CatCols(df) == {c \in Range(df.columns) : df.dtypes[c] = "category"}
ToParquetCudf == call.fn = "to_parquet" /\ call.engine = "cudf"
Done == pc = "done"

\* C3 as stated: to_parquet with engine="cudf" on a table with a categorical
\* column hands nothing to the native writer and fails with the
\* unsupported-categorical error, with or without partition_cols.
C3_AnyCategoricalRejected ==
    (ToParquetCudf /\ CatCols(call.df) # {}) =>
        /\ attempts = 0
        /\ Done => result = Raise(UnsupportedCategoricalType)

\* C3 amended: without partition_cols every categorical column is rejected
\* before the native writer is called; with partition_cols that leave a data
\* column the table is rejected, before any native write, exactly when a
\* non-partition column is categorical and the table has a row.
C3_CategoricalRejectedAfterDrop ==
    (ToParquetCudf /\ CatCols(call.df) # {}) =>
        /\ call.partition_cols = <<>> =>
              /\ attempts = 0
              /\ Done => result = Raise(UnsupportedCategoricalType)
        /\ (/\ call.partition_cols # <<>>
            /\ ~(Range(call.df.columns) \subseteq Range(call.partition_cols))) =>
              IF /\ CatCols(call.df) \ Range(call.partition_cols) # {}
                 /\ call.df.rows # <<>>
              THEN /\ attempts = 0
                   /\ Done => result = Raise(UnsupportedCategoricalType)
              ELSE /\ result # Raise(UnsupportedCategoricalType)
                   /\ (Done /\ raised = None) => /\ result = Return(None)
                                                /\ Len(written) = Len(groups)

\* a categorical partition column is written without complaint
C3_Witness ==
    /\ ToParquetCudf
    /\ call.partition_cols = <<"A">>
    /\ CatCols(call.df) = {"A"}
    /\ Done
    /\ result = Return(None)
    /\ Len(written) = 2

\* C4: when the partition columns are all the columns of the table,
\* write_to_dataset raises the no-data-columns error, and has then computed
\* no partition group, created no directory but the root and written no file.
C4_NoDataColumnsFirst ==
    /\ (Partitioned /\ Range(wd.df.columns) \subseteq Range(wd.partition_cols)) =>
          /\ Done
          /\ result = Raise(NoDataColumns)
    /\ result = Raise(NoDataColumns) =>
          /\ ngroupcalls = 0
          /\ groups = <<>>
          /\ dirs = {wd.root_path}
          /\ written = <<>>
          /\ attempts = 0
          /\ nguid = 0
          /\ mergeCalls = <<>>

C4_Witness ==
    /\ call.fn = "write_to_dataset"
    /\ result = Raise(NoDataColumns)
    /\ wd.partition_cols = <<"grp", "A">>
    /\ Len(wd.df.rows) = 2

\* the metadata objects of the written files, in write order
WrittenMetadata == [k \in 1..Len(written) |-> write_parquet(written[k])]

\* C5: a returned write_to_dataset with return_metadata gives back the one
\* file's metadata without a merge when one file was written, and the merge
\* of all files' metadata in write order (sorted key order) when more were;
\* without return_metadata, or with no file written, it gives back nothing.
C5_ReturnedMetadata ==
    (call.fn = "write_to_dataset" /\ Returned) =>
        /\ (wd.return_metadata /\ Len(written) = 1) =>
              /\ result.value = WrittenMetadata[1]
              /\ mergeCalls = <<>>
        /\ (wd.return_metadata /\ Len(written) > 1) =>
              /\ mergeCalls = <<WrittenMetadata>>
              /\ result.value = merge_filemetadata(WrittenMetadata)
              /\ \A k, m \in 1..Len(written) :
                    k < m => KeyLess(SourceRow(written[k].df.rows[1]["id"]),
                                     SourceRow(written[m].df.rows[1]["id"]),
                                     wd.partition_cols)
        /\ (~wd.return_metadata \/ Len(written) = 0) =>
              /\ result.value = None
              /\ mergeCalls = <<>>

C5_Witness ==
    /\ call.fn = "write_to_dataset"
    /\ Returned
    /\ wd.return_metadata
    /\ Len(written) = 2
    /\ Len(mergeCalls) = 1
    /\ Len(result.value.row_groups) = 2
    /\ result.value.row_groups[1].file_path = "A=0/guid0.parquet"
    /\ result.value.row_groups[2].file_path = "A=1/guid1.parquet"

\* C6: with return_metadata every written file records a metadata_file_path,
\* and root_path, the separator and that path make up the file's full path;
\* the path is <name>.parquet without partition columns.
C6_MetadataPathRelativeToRoot ==
    (InDataset /\ wd.return_metadata) =>
        \A k \in 1..Len(written) :
           /\ written[k].metadata_file_path # None
           /\ wd.root_path \o "/" \o written[k].metadata_file_path.v = written[k].path
           /\ wd.partition_cols = <<>> => written[k].metadata_file_path.v \in FileNames

C6_Witness ==
    /\ InDataset
    /\ wd.return_metadata
    /\ Len(written) = 1
    /\ written[1].metadata_file_path = Some("A=0/grp=y/guid0.parquet")
    /\ written[1].path = "root/A=0/grp=y/guid0.parquet"

\* every group of the loop has been processed
AllGroupsDone == i = Len(groups) + 1

\* C8: the merge is called at most once, and a merge or a returned value
\* comes only in the step after the last group's write has returned, with
\* one metadata entry per written file.
C8_MergeAfterAllWrites ==
    /\ [](mergeCalls # <<>> => (Done /\ Len(mergeCalls) = 1 /\ AllGroupsDone))
    /\ [][(InDataset /\ (mergeCalls' # mergeCalls \/ result'.kind = "return")) =>
             /\ AllGroupsDone
             /\ pc = "ret"
             /\ mergeCalls = <<>>
             /\ written' = written
             /\ attempts' = attempts
             /\ attempts = Len(written)
             /\ mergeCalls' # mergeCalls => mergeCalls' = <<WrittenMetadata>>]_vars

C8_Witness ==
    /\ Done
    /\ Len(groups) = 2
    /\ i = 3
    /\ attempts = 2
    /\ Len(mergeCalls) = 1

\* C9: when the write of a group fails, the caller gets that exception, no
\* later group is written and nothing is merged; only an empty group is
\* passed over, every other group gets its directory and its write.
C9_GroupFailurePropagates ==
    Partitioned =>
        /\ (raised # None /\ raised.v # NoDataColumns) =>
              /\ Done
              /\ result = Raise(raised.v)
              /\ mergeCalls = <<>>
              /\ Len(written) = i - 1 - skipped
              /\ attempts <= Len(written) + 1
              /\ nguid = i - skipped
        /\ skipped = Cardinality({g \in 1..(i - 1) : groups[g].rows = <<>>})
        /\ raised = None =>
              /\ nguid = i - 1 - skipped
              /\ attempts = nguid
              /\ Len(written) = nguid

C9_Witness ==
    /\ Partitioned
    /\ Done
    /\ Len(groups) = 2
    /\ i = 1
    /\ result = Raise(IOError("root/grp=x/guid0.parquet"))
    /\ written = <<>>
    /\ attempts = 1

\* C10: every file a to_parquet call with engine="cudf" writes carries the
\* compression and statistics the caller passed.
C10_SettingsReachEveryFile ==
    ToParquetCudf =>
        \A k \in 1..Len(written) :
           /\ written[k].compression = call.compression
           /\ written[k].statistics = call.statistics

-----------------------------------------------------------------------------
(* Properties of read_parquet *)

\* the rows stored in row groups a, a+1, ..., a+n-1 (0-based)
RowsOfGroups(file, a, n) == UNION {Range(file[g]) : g \in (a + 1)..(a + n)}

\* position of row x among the rows S, in file order
Rank(x, S) == Cardinality({y \in S : y <= x})

\* the rows of S left by skip_rows and num_rows
Trimmed(S, skip_rows, num_rows) ==
    LET skip == IF skip_rows = None THEN 0 ELSE skip_rows.v
    IN {x \in S : /\ Rank(x, S) > skip
                  /\ num_rows = None \/ Rank(x, S) <= skip + num_rows.v}

\* seq lists exactly the rows S, each once, in file order
InFileOrder(seq, S) ==
    /\ Len(seq) = Cardinality(S)
    /\ Range(seq) = S
    /\ \A j, k \in 1..Len(seq) : j < k => seq[j] < seq[k]

\* a finished read of row groups that exist in the file
RowGroupRead ==
    /\ call.fn = "read_parquet"
    /\ Done
    /\ call.content_encoding = None
    /\ call.row_group # None
    /\ call.row_group_count # None
    /\ call.row_group.v + call.row_group_count.v <= Len(call.file)

SelectedRows ==
    Trimmed(RowsOfGroups(call.file, call.row_group.v, call.row_group_count.v),
            call.skip_rows, call.num_rows)

\* C7 as stated: with any engine, read_parquet returns the rows of the
\* selected row groups in file order, trimmed by skip_rows and num_rows.
C7_RowGroupsAnyEngine ==
    RowGroupRead =>
        /\ result.kind = "return"
        /\ InFileOrder(result.value, SelectedRows)

\* C7 amended: that holds with engine="cudf"; any other engine is given no
\* row-group or row-range argument and returns all rows of the file.
C7_RowGroupsCudfEngine ==
    RowGroupRead =>
        /\ result.kind = "return"
        /\ IF call.engine = "cudf"
           THEN InFileOrder(result.value, SelectedRows)
           ELSE InFileOrder(result.value, RowsOfGroups(call.file, 0, Len(call.file)))

C7_Witness ==
    /\ RowGroupRead
    /\ call.engine = "cudf"
    /\ call.file = <<<<1, 2>>, <<3, 4>>>>
    /\ call.row_group = Some(1)
    /\ call.row_group_count = Some(1)
    /\ call.skip_rows = Some(1)
    /\ call.num_rows = Some(1)
    /\ result = Return(<<4>>)

====
